---- MODULE Spec2Model ----
(***************************************************************************)
(* Model of the RFP response generator: the provider registry, the         *)
(* response extractor, the prompt builder, the provider invoker and the    *)
(* requirement response workflow (single-provider and MOA modes) of        *)
(* src/call_llm.py and src/generate_prompt.py.                             *)
(*                                                                         *)
(* Text is a sequence of tokens.  A token is one character (" ", "a") or a *)
(* fixed literal of the source (a label, a template part).  Python values  *)
(* are tagged records [t |-> type, v |-> payload].                         *)
(***************************************************************************)
EXTENDS Integers, Sequences, FiniteSets, TLC

\* ------------------------------------------------------------------------
\* Python values
\* ------------------------------------------------------------------------

S(s) == [t |-> "str", v |-> s]
None == [t |-> "NoneType", v |-> <<>>]
Num(n) == [t |-> "int", v |-> <<n>>]
L(items) == [t |-> "list", v |-> items]
D(pairs) == [t |-> "dict", v |-> pairs]
O(attrs) == [t |-> "obj", v |-> attrs]

\* hasattr(x, a) / getattr(x, a) for the attributes the code looks at
HasAttr(x, a) == x.t = "obj" /\ \E i \in DOMAIN x.v : x.v[i][1] = a
GetAttr(x, a) == x.v[CHOOSE i \in DOMAIN x.v : x.v[i][1] = a][2]

\* 'k' in d / d['k'] for a dict
HasKey(x, k) == x.t = "dict" /\ \E i \in DOMAIN x.v : x.v[i][1] = k
GetKey(x, k) == x.v[CHOOSE i \in DOMAIN x.v : x.v[i][1] = k][2]

\* bool(x) as used by `if x`, `any([...])` and `x or y`
Truthy(x) == x.t # "NoneType" /\ (x.t \in {"str", "list", "dict"} => x.v # <<>>)

\* len(x) and x[:100] work (str, list); they raise TypeError on None and int
Sliceable(x) == x.t \in {"str", "list"}

RECURSIVE Flatten(_)
Flatten(ss) == IF ss = <<>> THEN <<>> ELSE Head(ss) \o Flatten(Tail(ss))

RECURSIVE Join(_, _)
\* sep.join(ss)
Join(sep, ss) ==
  IF ss = <<>> THEN <<>>
  ELSE IF Len(ss) = 1 THEN ss[1]
  ELSE ss[1] \o sep \o Join(sep, Tail(ss))

\* the quote repr() puts around a string: " when the string holds ' and no "
ReprQuote(s) ==
  IF (\E i \in DOMAIN s : s[i] = "'") /\ ~(\E i \in DOMAIN s : s[i] = "\"")
  THEN "\"" ELSE "'"

\* one character of a string as repr() shows it inside the quote
ReprChar(c, quote) ==
  IF c = "\\" THEN <<"\\", "\\">>
  ELSE IF c = quote THEN <<"\\", quote>>
  ELSE IF c = "\n" THEN <<"\\", "n">>
  ELSE IF c = "\t" THEN <<"\\", "t">>
  ELSE <<c>>

\* faulty variant: the characters are put between the quotes as they are
ReprStr_Unescaped(s) == <<"'">> \o s \o <<"'">>

\* repr(s) of a string
ReprStr(s) ==
  <<ReprQuote(s)>>
    \o Flatten([i \in DOMAIN s |-> ReprChar(s[i], ReprQuote(s))])
    \o <<ReprQuote(s)>>

RECURSIVE Repr(_)
\* repr(x): str(x) of a list shows the repr of its items
Repr(x) ==
  CASE x.t = "str" -> ReprStr(x.v)
    [] x.t = "NoneType" -> <<"None">>
    [] x.t = "int" -> <<ToString(x.v[1])>>
    [] x.t = "list" ->
         <<"[">> \o Join(<<",", " ">>, [i \in DOMAIN x.v |-> Repr(x.v[i])]) \o <<"]">>
    [] x.t = "dict" ->
         <<"{">> \o Join(<<",", " ">>,
                        [i \in DOMAIN x.v |->
                           ReprStr(<<x.v[i][1]>>) \o <<":", " ">> \o Repr(x.v[i][2])])
              \o <<"}">>
    [] OTHER -> <<"<object>">>

\* str(x)
Str(x) == IF x.t = "str" THEN x.v ELSE Repr(x)

Whitespace == {" ", "\n", "\t"}

RECURSIVE LStrip(_)
LStrip(s) == IF s # <<>> /\ Head(s) \in Whitespace THEN LStrip(Tail(s)) ELSE s

RECURSIVE RStrip(_)
RStrip(s) ==
  IF s # <<>> /\ s[Len(s)] \in Whitespace THEN RStrip(SubSeq(s, 1, Len(s) - 1)) ELSE s

\* s.strip()
Strip(s) == RStrip(LStrip(s))

\* ------------------------------------------------------------------------
\* Provider registry: get_model_config
\* ------------------------------------------------------------------------

UpperLetters ==
  <<"A", "B", "C", "D", "E", "F", "G", "H", "I", "J", "K", "L", "M",
    "N", "O", "P", "Q", "R", "S", "T", "U", "V", "W", "X", "Y", "Z">>
LowerLetters ==
  <<"a", "b", "c", "d", "e", "f", "g", "h", "i", "j", "k", "l", "m",
    "n", "o", "p", "q", "r", "s", "t", "u", "v", "w", "x", "y", "z">>

LowerChar(c) ==
  IF \E i \in DOMAIN UpperLetters : UpperLetters[i] = c
  THEN LowerLetters[CHOOSE i \in DOMAIN UpperLetters : UpperLetters[i] = c]
  ELSE c

\* name.lower(); a model name is a sequence of characters
Lower(name) == [i \in DOMAIN name |-> LowerChar(name[i])]

openai == <<"o", "p", "e", "n", "a", "i">>
deepseek == <<"d", "e", "e", "p", "s", "e", "e", "k">>
anthropic == <<"a", "n", "t", "h", "r", "o", "p", "i", "c">>
claude == <<"c", "l", "a", "u", "d", "e">>
moa == <<"m", "o", "a">>

model_configs ==
  (openai :> [display_name |-> "OpenAI",
              requires_system_message_handling |-> FALSE,
              response_handler |-> "choices_content_strip"])
  @@ (deepseek :> [display_name |-> "DeepSeek",
                   requires_system_message_handling |-> FALSE,
                   response_handler |-> "choices_content_strip"])
  @@ (anthropic :> [display_name |-> "Anthropic",
                    requires_system_message_handling |-> TRUE,
                    response_handler |-> "extract_text"])

\* faulty variant: the name is compared as it is given
NormalizeName_CaseSensitive(model_name) ==
  IF model_name = claude THEN anthropic ELSE model_name

\* lines 152-157: lower-case the name, claude stands for anthropic
NormalizeName(model_name) ==
  LET lowered == Lower(model_name)
  IN IF lowered = claude THEN anthropic ELSE lowered

\* get_model_config: [raised |-> TRUE] is the ValueError "Unsupported model"
GetModelConfig(model_name) ==
  LET normalized_name == NormalizeName(model_name)
  IN IF normalized_name \in DOMAIN model_configs
     THEN [raised |-> FALSE,
           normalized_name |-> normalized_name,
           display_name |-> model_configs[normalized_name].display_name,
           requires_system_message_handling |->
             model_configs[normalized_name].requires_system_message_handling,
           response_handler |-> model_configs[normalized_name].response_handler]
     ELSE [raised |-> TRUE,
           normalized_name |-> normalized_name,
           display_name |-> "",
           requires_system_message_handling |-> FALSE,
           response_handler |-> ""]

\* ------------------------------------------------------------------------
\* Response extractor: extract_text
\* ------------------------------------------------------------------------

Ret(x) == [raised |-> FALSE, val |-> x]
Raise == [raised |-> TRUE, val |-> None]

\* the items of a content list that have a text attribute
TextBlocks(items) == SelectSeq(items, LAMBDA b : HasAttr(b, "text"))

\* faulty variant: the joined block text is returned even when it is empty
ExtractContentList_EmptyJoin(content) ==
  LET blocks == TextBlocks(content.v)
      texts == [i \in DOMAIN blocks |-> GetAttr(blocks[i], "text")]
      joinOk == \A i \in DOMAIN texts : texts[i].t = "str"
      result == Join(<<" ">>, [i \in DOMAIN texts |-> texts[i].v])
  IN IF joinOk
     THEN Ret(S(result))
     ELSE Ret(S(Str(content)))

\* extract_text, the branch for a content attribute that is a list
ExtractContentList(content) ==
  LET blocks == TextBlocks(content.v)
      texts == [i \in DOMAIN blocks |-> GetAttr(blocks[i], "text")]
      joinOk == \A i \in DOMAIN texts : texts[i].t = "str"
      result == Join(<<" ">>, [i \in DOMAIN texts |-> texts[i].v])
  IN IF joinOk /\ result # <<>>
     THEN Ret(S(result))
     ELSE IF content.v # <<>> /\ HasKey(content.v[1], "text")
              /\ Sliceable(GetKey(content.v[1], "text"))
          THEN Ret(GetKey(content.v[1], "text"))
          ELSE Ret(S(Str(content)))

\* extract_text, the branches after content and text: message, choices, str()
ExtractNested(response) ==
  LET viaMessage ==
        /\ HasAttr(response, "message")
        /\ HasAttr(GetAttr(response, "message"), "content")
        /\ LET content == GetAttr(GetAttr(response, "message"), "content")
           IN /\ content.t = "list"
              /\ content.v # <<>>
              /\ HasAttr(content.v[1], "text")
              /\ Sliceable(GetAttr(content.v[1], "text"))
      viaChoices ==
        /\ HasAttr(response, "choices")
        /\ GetAttr(response, "choices").t = "list"
        /\ GetAttr(response, "choices").v # <<>>
        /\ LET choice == GetAttr(response, "choices").v[1]
           IN /\ HasAttr(choice, "message")
              /\ HasAttr(GetAttr(choice, "message"), "content")
              /\ Sliceable(GetAttr(GetAttr(choice, "message"), "content"))
  IN IF viaMessage
     THEN Ret(GetAttr(GetAttr(GetAttr(response, "message"), "content").v[1], "text"))
     ELSE IF viaChoices
          THEN Ret(GetAttr(GetAttr(GetAttr(response, "choices").v[1], "message"),
                           "content"))
          ELSE Ret(S(Str(response)))

\* extract_text(response): the value returned, or raised
ExtractText(response) ==
  IF response.t = "str" THEN Ret(response)
  ELSE IF HasAttr(response, "content")
  THEN LET content == GetAttr(response, "content")
       IN IF content.t = "list" THEN ExtractContentList(content)
          ELSE IF content.t = "str" THEN Ret(content)
          ELSE Ret(S(Str(content)))
  ELSE IF HasAttr(response, "text")
  THEN IF Sliceable(GetAttr(response, "text"))
       THEN Ret(GetAttr(response, "text"))
       ELSE Raise
  ELSE ExtractNested(response)

\* ------------------------------------------------------------------------
\* Prompt builder: create_rfp_prompt, convert_prompt_to_claude,
\* create_synthesized_response_prompt
\* ------------------------------------------------------------------------

Msg(role, content) == [role |-> role, content |-> content]

Digits == <<"0", "1", "2", "3", "4", "5", "6", "7", "8", "9">>

RECURSIVE Pow10(_)
Pow10(n) == IF n = 0 THEN 1 ELSE 10 * Pow10(n - 1)

\* A similarity score is a number of hundred-thousandths (91234 is 0.91234).
ScoreUnit == Pow10(5)

RECURSIVE DigitsOf(_, _)
\* the last `width` decimal digits of n, as characters
DigitsOf(n, width) ==
  IF width = 0 THEN <<>>
  ELSE DigitsOf(n \div 10, width - 1) \o <<Digits[(n % 10) + 1]>>

\* f"{score:.<decimals>f}" of a score in [0, 10): rounded, fixed point
FormatFixed(score, decimals) ==
  LET step == ScoreUnit \div Pow10(decimals)
      rounded == (score + step \div 2) \div step
  IN <<Digits[(rounded \div Pow10(decimals)) + 1], ".">>
       \o DigitsOf(rounded % Pow10(decimals), decimals)

NoExamplesNotice ==
  "No previous responses available. Create an original response based on your expertise."

\* one entry of formatted_examples
FormatExample(i, resp) ==
  <<"**Example ", ToString(i), " (Similarity: ">>
    \o FormatFixed(resp.similarity_score, 2)
    \o <<")**:\n", "Requirement: ">> \o resp.requirement
    \o <<"\n", "Response: ">> \o resp.response \o <<"\n", "\n">>

\* faulty variant: every match is used
ExamplesUsed_All(previous_responses) == previous_responses

\* previous_responses[:3]
ExamplesUsed(previous_responses) ==
  SubSeq(previous_responses, 1,
         IF Len(previous_responses) < 3 THEN Len(previous_responses) ELSE 3)

FormattedExamples(previous_responses) ==
  LET used == ExamplesUsed(previous_responses)
  IN Flatten([i \in DOMAIN used |-> FormatExample(i, used[i])])

\* create_rfp_prompt(requirement, category, previous_responses)
CreateRfpPrompt(requirement, category, previous_responses) ==
  LET formatted_examples == FormattedExamples(previous_responses)
      system_message ==
        Msg("system",
            <<"You are a senior RFP specialist ... Requirement Category: ">>
              \o (IF Truthy(category) THEN category.v ELSE <<"Financial Technology">>)
              \o <<".\n- Current Requirement: ">> \o requirement
              \o <<".\n- Audience: ... **TASK** ... **GUIDELINES** ...">>)
      user_message ==
        Msg("user",
            <<"You have the following previous responses ...\n**Previous Responses and Scores**:\n">>
              \o (IF formatted_examples # <<>> THEN formatted_examples
                  ELSE <<NoExamplesNotice>>)
              \o <<"\n\n**Instructions**: ...\n**Current Requirement**: ">>
              \o requirement \o <<"\n">>)
      validation_message ==
        Msg("user", <<"Review and validate the draft response based on these criteria: ...">>)
  IN <<system_message, user_message, validation_message>>

\* create_rfp_prompt with its optional argument: a list, or None when absent
CreateRfpPromptOptional(requirement, category, previous_responses) ==
  CreateRfpPrompt(requirement, category,
                  IF Truthy(previous_responses) THEN previous_responses.v ELSE <<>>)

\* faulty variant: a prompt without a system message gets a fixed system text
FirstSystem_FixedDefault(prompt, dflt) ==
  IF \E i \in DOMAIN prompt : prompt[i].role = "system"
  THEN prompt[CHOOSE i \in DOMAIN prompt :
                /\ prompt[i].role = "system"
                /\ \A j \in 1..(i - 1) : prompt[j].role # "system"].content
  ELSE <<"You are a helpful assistant.">>

\* the content of the first system message of a prompt, or dflt
FirstSystem(prompt, dflt) ==
  IF \E i \in DOMAIN prompt : prompt[i].role = "system"
  THEN prompt[CHOOSE i \in DOMAIN prompt :
                /\ prompt[i].role = "system"
                /\ \A j \in 1..(i - 1) : prompt[j].role # "system"].content
  ELSE dflt

RECURSIVE ConvertMessages(_, _, _)
\* the second loop of convert_prompt_to_claude: claude_messages after `rest`
ConvertMessages(rest, system_message, claude_messages) ==
  IF rest = <<>> THEN claude_messages
  ELSE LET msg == Head(rest)
       IN ConvertMessages(Tail(rest), system_message,
            IF msg.role = "system" THEN claude_messages
            ELSE IF msg.role = "assistant"
            THEN Append(claude_messages, Msg("assistant", msg.content))
            ELSE IF msg.role = "user"
            THEN IF system_message # <<>> /\ claude_messages = <<>>
                 THEN Append(claude_messages,
                             Msg("user", system_message \o <<"\n\nHuman: ">> \o msg.content))
                 ELSE Append(claude_messages, Msg("user", msg.content))
            ELSE claude_messages)

\* convert_prompt_to_claude(prompt)
ConvertPromptToClaude(prompt) ==
  ConvertMessages(prompt, FirstSystem(prompt, <<>>), <<>>)

\* create_synthesized_response_prompt(requirement, responses)
CreateSynthesizedResponsePrompt(requirement, responses) ==
  <<Msg("system",
        <<"You are a senior RFP specialist ... OBJECTIVE: Synthesize multiple response versions into one optimal response that directly addresses the requirement: ">>
          \o requirement \o <<"\n\nEVALUATION CRITERIA: ... OUTPUT REQUIREMENTS: ...">>),
    Msg("user",
        <<"REQUIREMENT TO ADDRESS:\n">> \o requirement
          \o <<"\n\nSOURCE RESPONSES TO SYNTHESIZE:\n">> \o responses
          \o <<"\n\nSYNTHESIS PROCESS: ... Now, provide the synthesized response that best addresses the requirement.">>),
    Msg("user", <<"FINAL CHECKS: ... If any check fails, revise the response accordingly.">>)>>

\* ------------------------------------------------------------------------
\* Provider invoker: prompt_gpt
\* ------------------------------------------------------------------------

ConfidentialityNotice ==
  "All responses and data must be treated as private and confidential. Do not use for training or any other purpose."

\* faulty variant: the system entries stay in the message list
BuildRequest_KeepSystem(config, prompt) ==
  IF config.requires_system_message_handling
  THEN [name |-> config.normalized_name,
        messages |-> prompt,
        system |-> S(FirstSystem(prompt, <<ConfidentialityNotice>>))]
  ELSE [name |-> config.normalized_name,
        messages |-> prompt,
        system |-> None]

\* the request prompt_gpt hands to the transport client
BuildRequest(config, prompt) ==
  IF config.requires_system_message_handling
  THEN [name |-> config.normalized_name,
        messages |-> SelectSeq(prompt, LAMBDA msg : msg.role # "system"),
        system |-> S(FirstSystem(prompt, <<ConfidentialityNotice>>))]
  ELSE [name |-> config.normalized_name,
        messages |-> prompt,
        system |-> None]

\* lambda response: response.choices[0].message.content.strip()
ChoicesContentStrip(response) ==
  IF /\ HasAttr(response, "choices")
     /\ GetAttr(response, "choices").t = "list"
     /\ GetAttr(response, "choices").v # <<>>
     /\ HasAttr(GetAttr(response, "choices").v[1], "message")
     /\ HasAttr(GetAttr(GetAttr(response, "choices").v[1], "message"), "content")
     /\ GetAttr(GetAttr(GetAttr(response, "choices").v[1], "message"), "content").t = "str"
  THEN Ret(S(Strip(GetAttr(GetAttr(GetAttr(response, "choices").v[1], "message"),
                           "content").v)))
  ELSE Raise

ResponseHandler(config, response) ==
  IF config.response_handler = "extract_text"
  THEN ExtractText(response)
  ELSE ChoicesContentStrip(response)

EmptyResponsePlaceholder(display_name) ==
  <<"The system encountered an issue with the ", display_name,
    " response. Please try again or use another model.">>

\* faulty variant: the empty text is returned as it is
CleanContent_NoPlaceholder(display_name, content) ==
  IF content.t = "str" THEN Ret(S(Strip(content.v))) ELSE Raise

\* prompt_gpt lines 293-305: validate and clean up the handler's content
CleanContent(display_name, content) ==
  IF content.t = "str"
  THEN IF Strip(content.v) = <<>>
       THEN Ret(S(EmptyResponsePlaceholder(display_name)))
       ELSE Ret(S(Strip(content.v)))
  ELSE Raise

\* faulty variant: a failed transport call is answered with the placeholder
PromptGptResult_Swallow(config, outcome) ==
  IF outcome.raised THEN Ret(S(EmptyResponsePlaceholder(config.display_name)))
  ELSE LET content == ResponseHandler(config, outcome.val)
       IN IF content.raised THEN Raise
          ELSE CleanContent(config.display_name, content.val)

\* prompt_gpt from the transport's outcome on: the text returned, or raised.
\* outcome is [raised |-> TRUE, ...] when the transport call raised.
PromptGptResult(config, outcome) ==
  IF outcome.raised THEN Raise
  ELSE LET content == ResponseHandler(config, outcome.val)
       IN IF content.raised THEN Raise
          ELSE CleanContent(config.display_name, content.val)

\* prompt_gpt(prompt, model_name), given what the transport call does
PromptGpt(model_name, outcome) ==
  IF GetModelConfig(model_name).raised THEN Raise
  ELSE PromptGptResult(GetModelConfig(model_name), outcome)

\* ------------------------------------------------------------------------
\* Requirement response workflow: get_llm_responses
\* ------------------------------------------------------------------------

\* Number of workflow calls explored on the one stored requirement.
MaxCalls == 2

VARIABLES
  row,                    \* the stored row of excel_requirement_responses, id 1
  pc,                     \* where the current workflow call stands
  args,                   \* requirement_id and model of the current call
  searched,               \* whether this call issued the similarity query
  previous_responses,     \* local of get_llm_responses
  similar_questions_list, \* local of get_llm_responses
  model_responses,        \* local of get_llm_responses (MOA)
  final_response,         \* local: final_response (MOA) or response (single)
  inflight,               \* the provider call prompt_gpt is waiting on
  calls,                  \* the provider invocations this call has made
  writes,                 \* the persistence writes this call has committed
  ncalls,                 \* workflow calls started so far
  history,                \* while only single-provider calls have written: per
                          \* provider, the text its last such call returned,
                          \* and the text the last of them all returned;
                          \* the match texts the call that last wrote used
  fnArgs,                 \* the arguments of a function applied on its own
  fnResult                \* what it returned

vars ==
  <<row, pc, args, searched, previous_responses, similar_questions_list,
    model_responses, final_response, inflight, calls, writes, ncalls, history,
    fnArgs, fnResult>>

\* the variables of the function specifications
fvars == <<fnArgs, fnResult>>

\* the variables of the workflow
wvars ==
  <<row, pc, args, searched, previous_responses, similar_questions_list,
    model_responses, final_response, inflight, calls, writes, ncalls, history>>

\* --- the database -------------------------------------------------------

\* excel_requirement_responses holds one requirement, id 1
Requirements ==
  (1 :> [requirement |-> <<"Describe your reporting dashboard capabilities">>,
         category |-> S(<<"Reporting">>)])

\* fetchone() when no row has the id
NoRequirement == [requirement |-> <<>>, category |-> None]

\* faulty variant: an id that is not stored yields a stand-in requirement
FetchRequirement_StandIn(requirement_id) ==
  IF requirement_id \in DOMAIN Requirements THEN Requirements[requirement_id]
  ELSE [requirement |-> <<"Missing requirement with ID ", ToString(requirement_id)>>,
        category |-> None]

\* lines 439-444: the requirement row of the id
FetchRequirement(requirement_id) ==
  IF requirement_id \in DOMAIN Requirements THEN Requirements[requirement_id]
  ELSE NoRequirement

EmptyRow ==
  [openai_response |-> None,
   deepseek_response |-> None,
   anthropic_response |-> None,
   final_response |-> None,
   similar_questions |-> None]

Match(q, r, score) ==
  [matched_requirement |-> q, matched_response |-> r, similarity_score |-> score]

\* results of the similarity query (ORDER BY similarity_score DESC LIMIT 5)
SimilarResultSets ==
  { <<>>,
    <<Match(<<"Q", "'", "1">>, <<"A", "\"", "'", "\\", "\n", "1">>, 91234),
      Match(<<"Q2">>, <<"A2">>, 13496)>> }

\* outcomes of the similarity query: rows, or an exception
SimilarityOutcomes ==
  { Ret(L(sr)) : sr \in SimilarResultSets \ {<<>>} } \cup {Raise}

\* lines 541-550: previous_responses
PreviousResponses(similar_results) ==
  [i \in DOMAIN similar_results |->
     [requirement |-> similar_results[i].matched_requirement,
      response |-> similar_results[i].matched_response,
      similarity_score |-> similar_results[i].similarity_score]]

\* lines 552-558: similar_questions_list
SimilarQuestionsList(similar_results) ==
  [i \in DOMAIN similar_results |->
     D(<< <<"question", S(similar_results[i].matched_requirement)>>,
          <<"response", S(similar_results[i].matched_response)>>,
          <<"reference", S(<<"Response #", ToString(i)>>)>>,
          <<"similarity_score", S(FormatFixed(similar_results[i].similarity_score, 4))>> >>)]

\* str(similar_questions_list), the cached snapshot
Snapshot(sql) == S(Str(L(sql)))

RECURSIVE DigitsValue(_)
DigitsValue(ds) ==
  IF ds = <<>> THEN 0
  ELSE 10 * DigitsValue(SubSeq(ds, 1, Len(ds) - 1))
       + ((CHOOSE d \in DOMAIN Digits : Digits[d] = ds[Len(ds)]) - 1)

\* float(s) of a fixed-point string "d.dddd", as a score
ParseFixed(s) ==
  LET dot == CHOOSE i \in DOMAIN s : s[i] = "."
      frac == SubSeq(s, dot + 1, Len(s))
  IN DigitsValue(SubSeq(s, 1, dot - 1)) * ScoreUnit
     + DigitsValue(frac) * (ScoreUnit \div Pow10(Len(frac)))

\* what a parsing step yields: the value read and the text after it
Parsed(val, rest) == [ok |-> TRUE, val |-> val, rest |-> rest]
NotParsed == [ok |-> FALSE, val |-> None, rest |-> <<>>]

RECURSIVE ParseStrBody(_, _, _)
\* a string literal after its opening quote
ParseStrBody(tokens, quote, acc) ==
  IF tokens = <<>> \/ Head(tokens) = "\n" THEN NotParsed
  ELSE IF Head(tokens) = quote THEN Parsed(S(acc), Tail(tokens))
  ELSE IF Head(tokens) = "\\"
  THEN IF Len(tokens) < 2 THEN NotParsed
       ELSE ParseStrBody(SubSeq(tokens, 3, Len(tokens)), quote,
                         acc \o (CASE tokens[2] = "n" -> <<"\n">>
                                   [] tokens[2] = "t" -> <<"\t">>
                                   [] tokens[2] \in {"\\", "'", "\""} -> <<tokens[2]>>
                                   [] OTHER -> <<"\\", tokens[2]>>))
  ELSE ParseStrBody(Tail(tokens), quote, Append(acc, Head(tokens)))

RECURSIVE ParseValue(_)
RECURSIVE ParseItems(_, _)
RECURSIVE ParsePairs(_, _)

\* a literal: a string, None, a list display or a dict display
ParseValue(tokens) ==
  IF tokens = <<>> THEN NotParsed
  ELSE IF Head(tokens) \in {"'", "\""} THEN ParseStrBody(Tail(tokens), Head(tokens), <<>>)
  ELSE IF Head(tokens) = "None" THEN Parsed(None, Tail(tokens))
  ELSE IF Head(tokens) = "[" THEN ParseItems(Tail(tokens), <<>>)
  ELSE IF Head(tokens) = "{" THEN ParsePairs(Tail(tokens), <<>>)
  ELSE NotParsed

\* the items of a list display after "[" or after a separator
ParseItems(tokens, acc) ==
  IF tokens = <<>> THEN NotParsed
  ELSE IF Head(tokens) = "]" THEN Parsed(L(acc), Tail(tokens))
  ELSE LET item == ParseValue(tokens)
       IN IF ~item.ok \/ item.rest = <<>> THEN NotParsed
          ELSE IF Head(item.rest) = "]"
          THEN Parsed(L(Append(acc, item.val)), Tail(item.rest))
          ELSE IF Len(item.rest) >= 2 /\ item.rest[1] = "," /\ item.rest[2] = " "
          THEN ParseItems(SubSeq(item.rest, 3, Len(item.rest)), Append(acc, item.val))
          ELSE NotParsed

\* the key: value pairs of a dict display after "{" or after a separator
ParsePairs(tokens, acc) ==
  IF tokens = <<>> THEN NotParsed
  ELSE IF Head(tokens) = "}" THEN Parsed(D(acc), Tail(tokens))
  ELSE LET key == ParseValue(tokens)
       IN IF ~key.ok \/ key.val.t # "str" \/ Len(key.val.v) # 1 \/ Len(key.rest) < 3
             \/ key.rest[1] # ":" \/ key.rest[2] # " "
          THEN NotParsed
          ELSE LET value == ParseValue(SubSeq(key.rest, 3, Len(key.rest)))
               IN IF ~value.ok \/ value.rest = <<>> THEN NotParsed
                  ELSE IF Head(value.rest) = "}"
                  THEN Parsed(D(Append(acc, <<key.val.v[1], value.val>>)), Tail(value.rest))
                  ELSE IF Len(value.rest) >= 2 /\ value.rest[1] = ","
                          /\ value.rest[2] = " "
                  THEN ParsePairs(SubSeq(value.rest, 3, Len(value.rest)),
                                  Append(acc, <<key.val.v[1], value.val>>))
                  ELSE NotParsed

\* line 469: the literal must be the whole text, else literal_eval raises
WholeText(parse) == IF parse.ok /\ parse.rest = <<>> THEN Ret(parse.val) ELSE Raise

\* ast.literal_eval(stored): the value the text denotes, or an exception
LiteralEval(stored) ==
  IF stored.t = "str"
  THEN CHOOSE result \in { WholeText(parse) : parse \in {ParseValue(stored.v)} } : TRUE
  ELSE Raise

\* float(s) works: digits, a point, digits
IsFixed(s) ==
  /\ s.t = "str"
  /\ \E dot \in DOMAIN s.v :
       /\ s.v[dot] = "."
       /\ dot > 1 /\ dot < Len(s.v)
       /\ \A i \in DOMAIN s.v \ {dot} : \E d \in DOMAIN Digits : Digits[d] = s.v[i]

\* the loop of lines 474-481 runs through: a list of dicts with the three
\* keys it reads and a score float() accepts
CacheUsable(parsed) ==
  /\ parsed.t = "list"
  /\ \A i \in DOMAIN parsed.v :
       /\ HasKey(parsed.v[i], "question")
       /\ HasKey(parsed.v[i], "response")
       /\ HasKey(parsed.v[i], "similarity_score")
       /\ IsFixed(GetKey(parsed.v[i], "similarity_score"))

\* lines 474-481: similar_results rebuilt from the cached list
SimilarFromCache(sql) ==
  [i \in DOMAIN sql |->
     Match(GetKey(sql[i], "question").v, GetKey(sql[i], "response").v,
           ParseFixed(GetKey(sql[i], "similarity_score").v))]

\* faulty variant: a failed similarity query falls back to the stored snapshot
LoadSimilar_StaleOnFailure(stored, skip, outcome) ==
  IF /\ skip \/ outcome.raised
     /\ Truthy(stored)
     /\ ~LiteralEval(stored).raised
     /\ CacheUsable(LiteralEval(stored).val)
  THEN [searched |-> ~skip,
        similar_results |-> SimilarFromCache(LiteralEval(stored).val.v)]
  ELSE [searched |-> TRUE,
        similar_results |-> IF outcome.raised THEN <<>> ELSE outcome.val.v]

\* lines 500-539: the similarity query is issued; no rows when it fails
SearchSimilar(outcome) ==
  [searched |-> TRUE, similar_results |-> IF outcome.raised THEN <<>> ELSE outcome.val.v]

\* lines 469-497: the matches from the evaluated snapshot, or the query
LoadParsed(parsed, outcome) ==
  IF ~parsed.raised /\ CacheUsable(parsed.val)
  THEN [searched |-> FALSE, similar_results |-> SimilarFromCache(parsed.val.v)]
  ELSE SearchSimilar(outcome)

\* lines 451-539: similar_results and whether the similarity query was issued
LoadSimilar(stored, skip, outcome) ==
  IF skip /\ Truthy(stored)
  THEN CHOOSE loaded \in { LoadParsed(parsed, outcome) : parsed \in {LiteralEval(stored)} } :
         TRUE
  ELSE SearchSimilar(outcome)

\* --- provider transport -------------------------------------------------

ChatCompletion(content) ==
  O(<< <<"choices", L(<< O(<< <<"message", O(<< <<"content", content>> >>)>> >>) >>)>> >>)
TextBlock(text) == O(<< <<"type", S(<<"text">>)>>, <<"text", text>> >>)
Message(content) == O(<< <<"content", content>> >>)

NoCall == [status |-> "none",
           request |-> [name |-> <<>>, messages |-> <<>>, system |-> None]]

IsSynthesisRequest(request) ==
  \E i \in DOMAIN request.messages :
    \E j \in DOMAIN request.messages[i].content :
      request.messages[i].content[j] = "\n\nSOURCE RESPONSES TO SYNTHESIZE:\n"

\* what a provider's API may do with a request: raise, or answer
TransportOutcomes(request) ==
  {Raise} \cup
  { Ret(r) : r \in
      IF request.name = anthropic
      THEN { Message(L(<<TextBlock(S(<<"c">>))>>)), O(<< <<"text", None>> >>) }
      ELSE IF IsSynthesisRequest(request)
      THEN { ChatCompletion(S(<<"s", "\n">>)), ChatCompletion(S(<<>>)) }
      ELSE IF request.name = openai
      THEN { ChatCompletion(S(<<" ", "a", " ">>)), ChatCompletion(S(<<" ">>)) }
      ELSE { ChatCompletion(S(<<"b">>)), ChatCompletion(None) } }

\* --- the steps of get_llm_responses --------------------------------------

\* faulty variant: the loop runs over the providers in another order
FanoutModels_Reordered == <<anthropic, deepseek, openai>>

\* faulty variant: the loop calls openai a second time
FanoutModels_Retry == <<openai, openai, deepseek, anthropic>>

\* lines 586-590: the fan-out providers, in the order of the loop
FanoutModels == <<openai, deepseek, anthropic>>

\* faulty variant: every fan-out provider is given the prompt as built
FanoutPrompt_Unconverted(name, requirement, prev) ==
  CreateRfpPrompt(requirement.requirement, requirement.category, prev)

\* lines 576-590: the prompt each fan-out provider is given
FanoutPrompt(name, requirement, prev) ==
  IF name = anthropic
  THEN ConvertPromptToClaude(
         CreateRfpPrompt(requirement.requirement, requirement.category, prev))
  ELSE CreateRfpPrompt(requirement.requirement, requirement.category, prev)

\* lines 673-690: the prompt of single-provider mode
SinglePrompt(model, requirement, prev) ==
  IF ~GetModelConfig(model).raised /\ GetModelConfig(model).normalized_name = anthropic
  THEN ConvertPromptToClaude(
         CreateRfpPrompt(requirement.requirement, requirement.category, prev))
  ELSE CreateRfpPrompt(requirement.requirement, requirement.category, prev)

\* prompt_gpt up to the transport call: the call it waits on
Issue(model_name, prompt) ==
  [status |-> "pending", request |-> BuildRequest(GetModelConfig(model_name), prompt)]

\* the record of a provider invocation: who, what for, and how it ended
LogCall(purpose, model_name) ==
  [name |-> NormalizeName(model_name), purpose |-> purpose, status |-> "pending",
   transport |-> "pending"]

\* the last invocation of the log has ended: what the transport call did,
\* and whether prompt_gpt returned or raised
LogEnd(log, outcome, result) ==
  [log EXCEPT ![Len(log)].status = IF result.raised THEN "raised" ELSE "ok",
              ![Len(log)].transport = IF outcome.raised THEN "raised" ELSE "answered"]

\* lines 597-603: what the loop stores for a provider
FanoutRecord(result) == IF result.raised THEN None ELSE result.val

\* faulty variant: the synthesis is attempted whatever the fan-out gave
AnyResponse_Always(openai_response, deepseek_response, claude_response) == TRUE

\* line 611: any([openai_response, deepseek_response, claude_response])
AnyResponse(openai_response, deepseek_response, claude_response) ==
  Truthy(openai_response) \/ Truthy(deepseek_response) \/ Truthy(claude_response)

\* faulty variant: every provider is listed, a failed one as str(None)
ResponsesToSynthesize_Unfiltered(openai_response, deepseek_response, claude_response) ==
  << <<"OpenAI Response:\n">> \o Str(openai_response),
     <<"Deepseek Response:\n">> \o Str(deepseek_response),
     <<"Claude Response:\n">> \o Str(claude_response) >>

\* lines 612-618: responses_to_synthesize
ResponsesToSynthesize(openai_response, deepseek_response, claude_response) ==
  (IF Truthy(openai_response)
   THEN << <<"OpenAI Response:\n">> \o openai_response.v >> ELSE <<>>)
  \o (IF Truthy(deepseek_response)
      THEN << <<"Deepseek Response:\n">> \o deepseek_response.v >> ELSE <<>>)
  \o (IF Truthy(claude_response)
      THEN << <<"Claude Response:\n">> \o claude_response.v >> ELSE <<>>)

\* line 620: synthesis_prompt
SynthesisPrompt(requirement, responses) ==
  CreateSynthesizedResponsePrompt(requirement.requirement,
    Join(<<"\n\n">>,
         ResponsesToSynthesize(responses[openai], responses[deepseek], responses[anthropic])))

\* faulty variant: the synthesis is handed to another provider
SynthesisModel_Deepseek == deepseek

\* line 624: the provider prompt_gpt is called with for the synthesis
SynthesisModel == openai

\* faulty variant: the fallback prefers the last provider
Fallback_Reversed(openai_response, deepseek_response, claude_response) ==
  IF Truthy(claude_response) THEN claude_response
  ELSE IF Truthy(deepseek_response) THEN deepseek_response
  ELSE openai_response

\* line 629: openai_response or deepseek_response or claude_response
Fallback(openai_response, deepseek_response, claude_response) ==
  IF Truthy(openai_response) THEN openai_response
  ELSE IF Truthy(deepseek_response) THEN deepseek_response
  ELSE claude_response

\* faulty variant: an empty-response placeholder is treated as a failure
SynthesisFinal_PlaceholderFails(result, responses) ==
  IF result.raised \/ result.val = S(EmptyResponsePlaceholder("OpenAI"))
  THEN Fallback(responses[openai], responses[deepseek], responses[anthropic])
  ELSE result.val

\* lines 621-630: final_response from the synthesis call's result
SynthesisFinal(result, responses) ==
  IF result.raised
  THEN Fallback(responses[openai], responses[deepseek], responses[anthropic])
  ELSE result.val

\* faulty variant: a failed provider's column keeps what it held
SaveMoa_KeepOld(old, responses, final, sql) ==
  [openai_response |->
     IF responses[openai] = None THEN old.openai_response ELSE responses[openai],
   deepseek_response |->
     IF responses[deepseek] = None THEN old.deepseek_response ELSE responses[deepseek],
   anthropic_response |->
     IF responses[anthropic] = None THEN old.anthropic_response ELSE responses[anthropic],
   final_response |-> final,
   similar_questions |-> Snapshot(sql)]

\* lines 636-658: the UPDATE of MOA mode
SaveMoa(old, responses, final, sql) ==
  [openai_response |-> responses[openai],
   deepseek_response |-> responses[deepseek],
   anthropic_response |-> responses[anthropic],
   final_response |-> final,
   similar_questions |-> Snapshot(sql)]

\* lines 707-713: normalized_model for the single-provider UPDATE
SaveName(model) ==
  IF GetModelConfig(model).raised THEN Lower(model)
  ELSE GetModelConfig(model).normalized_name

\* faulty variant: final_response is set only while it is empty
SaveSingle_KeepFinal(old, normalized_model, response, sql) ==
  [openai_response |-> IF normalized_model = openai THEN response ELSE old.openai_response,
   deepseek_response |->
     IF normalized_model = deepseek THEN response ELSE old.deepseek_response,
   anthropic_response |->
     IF normalized_model = anthropic THEN response ELSE old.anthropic_response,
   final_response |-> IF old.final_response = None THEN response ELSE old.final_response,
   similar_questions |-> Snapshot(sql)]

\* lines 717-740: the UPDATE of single-provider mode
SaveSingle(old, normalized_model, response, sql) ==
  [openai_response |-> IF normalized_model = openai THEN response ELSE old.openai_response,
   deepseek_response |->
     IF normalized_model = deepseek THEN response ELSE old.deepseek_response,
   anthropic_response |->
     IF normalized_model = anthropic THEN response ELSE old.anthropic_response,
   final_response |-> response,
   similar_questions |-> Snapshot(sql)]

\* lines 621-659: MOA mode from the synthesis call's end to the function's end
MoaOutcome(result, old, responses, sql) ==
  [pc |-> "returned",
   final_response |-> SynthesisFinal(result, responses),
   row |-> SaveMoa(old, responses, SynthesisFinal(result, responses), sql),
   writes |-> 1]

\* faulty variant: the UPDATE runs before the failure is raised
SingleOutcome_SaveThenRaise(result, old, model, sql) ==
  IF result.raised
  THEN [pc |-> "raised", final_response |-> None,
        row |-> SaveSingle(old, SaveName(model), None, sql), writes |-> 1]
  ELSE [pc |-> "returned",
        final_response |-> result.val,
        row |-> SaveSingle(old, SaveName(model), result.val, sql),
        writes |-> 1]

\* lines 694-741: single-provider mode from the call's end to the function's end
SingleOutcome(result, old, model, sql) ==
  IF result.raised
  THEN \* line 702: raise ValueError
       [pc |-> "raised", final_response |-> None, row |-> old, writes |-> 0]
  ELSE [pc |-> "returned",
        final_response |-> result.val,
        row |-> SaveSingle(old, SaveName(model), result.val, sql),
        writes |-> 1]

\* the logical provider a model name stands for
ProviderOf(model) ==
  IF Lower(model) \in {anthropic, claude} THEN anthropic ELSE Lower(model)

\* the requirement text and response text of each match of a list
MatchTexts(responses) ==
  [i \in DOMAIN responses |-> <<responses[i].requirement, responses[i].response>>]

NoHistory ==
  [recent |-> [p \in {openai, deepseek, anthropic} |-> None], last |-> None,
   singlesOnly |-> TRUE, used |-> <<>>]

\* model names a caller may pass
ModelNames ==
  { moa, <<"M", "O", "A">>,
    <<"o", "p", "e", "n", "A", "I">>, <<"D", "e", "e", "p", "S", "e", "e", "k">>,
    anthropic, <<"C", "l", "a", "u", "d", "e">>,
    <<"g", "p", "t", "4">> }

\* the calls explored: every model name on the stored requirement, with and
\* without skip_similarity_search, and calls for an id that does not exist
StartInputs ==
  { <<1, model, skip, simOutcome>> :
      model \in ModelNames, skip \in BOOLEAN, simOutcome \in SimilarityOutcomes }
  \cup { <<2, moa, FALSE, Raise>> }
  \cup { <<2, openai, TRUE, simOutcome>> : simOutcome \in SimilarityOutcomes \ {Raise} }

NoFn == [done |-> FALSE, raised |-> FALSE, val |-> None]

WorkflowInit ==
  /\ row = EmptyRow
  /\ pc = "idle"
  /\ args = [requirement_id |-> 1, model |-> moa]
  /\ searched = FALSE
  /\ previous_responses = <<>>
  /\ similar_questions_list = <<>>
  /\ model_responses = <<>>
  /\ final_response = None
  /\ inflight = NoCall
  /\ calls = <<>>
  /\ writes = 0
  /\ ncalls = 0
  /\ history = NoHistory

Init ==
  /\ WorkflowInit
  /\ fnArgs = <<>>
  /\ fnResult = NoFn

\* get_llm_responses from its entry to the first provider call (or its raise)
Start(requirement_id, model, skip, simOutcome) ==
  /\ pc \in {"idle", "returned", "raised"}
  /\ ncalls < MaxCalls
  /\ ncalls' = ncalls + 1
  /\ args' = [requirement_id |-> requirement_id, model |-> model]
  /\ model_responses' = <<>>
  /\ final_response' = None
  /\ writes' = 0
  /\ UNCHANGED <<row, history, fvars>>
  /\ IF FetchRequirement(requirement_id) = NoRequirement
     THEN \* line 447: No requirement found
          /\ pc' = "raised"
          /\ searched' = FALSE
          /\ previous_responses' = <<>>
          /\ similar_questions_list' = <<>>
          /\ inflight' = NoCall
          /\ calls' = <<>>
     ELSE \E requirement \in {FetchRequirement(requirement_id)},
             loaded \in {LoadSimilar(row.similar_questions, skip, simOutcome)} :
          LET prev == PreviousResponses(loaded.similar_results)
          IN /\ searched' = loaded.searched
             /\ previous_responses' = prev
             /\ similar_questions_list' = SimilarQuestionsList(loaded.similar_results)
             /\ IF model = moa
                THEN /\ pc' = "fanout"
                     /\ inflight' = Issue(FanoutModels[1],
                                          FanoutPrompt(FanoutModels[1], requirement, prev))
                     /\ calls' = <<LogCall("fanout", FanoutModels[1])>>
                ELSE IF GetModelConfig(model).raised
                THEN \* prompt_gpt raises Unsupported model; line 702 re-raises
                     /\ pc' = "raised"
                     /\ inflight' = NoCall
                     /\ calls' = <<>>
                ELSE /\ pc' = "single"
                     /\ inflight' = Issue(model, SinglePrompt(model, requirement, prev))
                     /\ calls' = <<LogCall("single", model)>>

\* lines 593-632: a fan-out call ends; the loop goes on, then synthesis starts
FanoutReturns(outcome) ==
  /\ pc = "fanout"
  /\ inflight.status = "pending"
  /\ \E result \in {PromptGptResult(GetModelConfig(inflight.request.name), outcome)} :
     LET name == inflight.request.name
         responses == model_responses @@ (name :> FanoutRecord(result))
         done == Len(calls)
         requirement == Requirements[args.requirement_id]
     IN /\ model_responses' = responses
        /\ IF done < Len(FanoutModels)
           THEN /\ pc' = "fanout"
                /\ inflight' = Issue(FanoutModels[done + 1],
                                     FanoutPrompt(FanoutModels[done + 1], requirement,
                                                  previous_responses))
                /\ calls' = Append(LogEnd(calls, outcome, result),
                                   LogCall("fanout", FanoutModels[done + 1]))
           ELSE IF AnyResponse(responses[openai], responses[deepseek], responses[anthropic])
           THEN /\ pc' = "synthesis"
                /\ inflight' = Issue(SynthesisModel, SynthesisPrompt(requirement, responses))
                /\ calls' = Append(LogEnd(calls, outcome, result),
                                   LogCall("synthesis", SynthesisModel))
           ELSE \* line 632: Failed to generate responses from any model
                /\ pc' = "raised"
                /\ inflight' = NoCall
                /\ calls' = LogEnd(calls, outcome, result)
  /\ UNCHANGED <<row, args, searched, previous_responses, similar_questions_list,
                 final_response, writes, ncalls, history, fvars>>

\* lines 621-659: the synthesis call ends; final_response is set and saved
SynthesisReturns(outcome) ==
  /\ pc = "synthesis"
  /\ inflight.status = "pending"
  /\ \E result \in {PromptGptResult(GetModelConfig(SynthesisModel), outcome)} :
     \E out \in {MoaOutcome(result, row, model_responses, similar_questions_list)} :
        /\ final_response' = out.final_response
        /\ row' = out.row
        /\ writes' = writes + out.writes
        /\ pc' = out.pc
        /\ calls' = LogEnd(calls, outcome, result)
        /\ history' = IF out.writes > 0
                      THEN [NoHistory EXCEPT !.singlesOnly = FALSE,
                                             !.used = MatchTexts(previous_responses)]
                      ELSE history
  /\ inflight' = NoCall
  /\ UNCHANGED <<args, searched, previous_responses, similar_questions_list,
                 model_responses, ncalls, fvars>>

\* lines 694-741: the single provider call ends; the response is saved
SingleReturns(outcome) ==
  /\ pc = "single"
  /\ inflight.status = "pending"
  /\ \E result \in {PromptGptResult(GetModelConfig(args.model), outcome)} :
     \E out \in {SingleOutcome(result, row, args.model, similar_questions_list)} :
        /\ final_response' = out.final_response
        /\ row' = out.row
        /\ writes' = writes + out.writes
        /\ pc' = out.pc
        /\ calls' = LogEnd(calls, outcome, result)
        /\ history' = IF result.raised THEN history
                      ELSE IF ~history.singlesOnly
                      THEN [history EXCEPT !.used = MatchTexts(previous_responses)]
                      ELSE [history EXCEPT !.recent[ProviderOf(args.model)] = result.val,
                                           !.last = result.val,
                                           !.used = MatchTexts(previous_responses)]
  /\ inflight' = NoCall
  /\ UNCHANGED <<args, searched, previous_responses, similar_questions_list,
                 model_responses, ncalls, fvars>>

\* the provider never answers: prompt_gpt sets no timeout
ProviderHangs ==
  /\ inflight.status = "pending"
  /\ inflight' = [inflight EXCEPT !.status = "hung"]
  /\ UNCHANGED <<row, pc, args, searched, previous_responses, similar_questions_list,
                 model_responses, final_response, calls, writes, ncalls, history, fvars>>

Next ==
  \/ \E in \in StartInputs : Start(in[1], in[2], in[3], in[4])
  \/ \E outcome \in TransportOutcomes(inflight.request) : FanoutReturns(outcome)
  \/ \E outcome \in TransportOutcomes(inflight.request) : SynthesisReturns(outcome)
  \/ \E outcome \in TransportOutcomes(inflight.request) : SingleReturns(outcome)

\* The workflow with provider calls that answer or raise.  The database
\* statements are taken to succeed.
Spec == Init /\ [][Next]_vars

NextHang == Next \/ ProviderHangs

\* The workflow with provider calls that may also never answer; every call
\* that has not hung comes back, and the handler then runs on.
HangSpec == Init /\ [][NextHang]_vars /\ WF_vars(NextHang)

TypeOK ==
  /\ pc \in {"idle", "fanout", "synthesis", "single", "returned", "raised"}
  /\ writes \in {0, 1}
  /\ ncalls \in 0..MaxCalls

\* ------------------------------------------------------------------------
\* The provider invoker on its own
\* ------------------------------------------------------------------------

\* reply objects of the shapes extract_text and the handlers look at
ResponseShapes ==
  { S(<<"a">>), S(<<" ", "a", " ">>), S(<<>>),
    Message(L(<<TextBlock(S(<<"a">>)), TextBlock(S(<<"b">>))>>)),
    Message(L(<<TextBlock(S(<<" ">>))>>)),
    Message(L(<<TextBlock(S(<<>>))>>)),
    Message(L(<<TextBlock(S(<<>>)), TextBlock(S(<<>>))>>)),
    Message(L(<<TextBlock(S(<<>>)), TextBlock(S(<<>>)), TextBlock(S(<<>>))>>)),
    Message(L(<<TextBlock(None)>>)),
    Message(L(<<>>)),
    Message(L(<<S(<<"a">>), S(<<"b">>)>>)),
    Message(L(<<D(<< <<"text", S(<<"d">>)>> >>)>>)),
    Message(L(<<D(<< <<"text", S(<<>>)>> >>)>>)),
    Message(L(<<D(<< <<"text", None>> >>)>>)),
    Message(S(<<" ", "a", "\n">>)), Message(S(<<" ", " ">>)), Message(S(<<>>)),
    Message(None), Message(Num(7)),
    O(<< <<"text", S(<<"t", " ">>)>> >>), O(<< <<"text", S(<<>>)>> >>),
    O(<< <<"text", None>> >>), O(<< <<"text", L(<<S(<<"t">>)>>)>> >>),
    O(<< <<"message", Message(L(<<TextBlock(S(<<"m">>))>>))>> >>),
    O(<< <<"message", Message(L(<<TextBlock(None)>>))>> >>),
    ChatCompletion(S(<<" ", "a", " ">>)), ChatCompletion(S(<<"\n">>)),
    ChatCompletion(S(<<>>)), ChatCompletion(None),
    ChatCompletion(L(<<S(<<"a">>)>>)),
    O(<< <<"choices", L(<<>>)>> >>),
    O(<<>>) }

\* what the transport call may do: raise, or answer with one of the shapes
InvokerOutcomes == {Raise} \cup { Ret(r) : r \in ResponseShapes }

InvokerInit ==
  /\ WorkflowInit
  /\ fnArgs \in { <<model_name, outcome>> :
                    model_name \in ModelNames \cup {openai, deepseek, claude},
                    outcome \in InvokerOutcomes }
  /\ fnResult = NoFn

\* one call of prompt_gpt
Invoke ==
  /\ ~fnResult.done
  /\ fnResult' = [done |-> TRUE,
                  raised |-> PromptGpt(fnArgs[1], fnArgs[2]).raised,
                  val |-> PromptGpt(fnArgs[1], fnArgs[2]).val]
  /\ UNCHANGED <<wvars, fnArgs>>

InvokerNext == Invoke

InvokerSpec == InvokerInit /\ [][InvokerNext]_vars

\* the display name of the provider a model name stands for
DisplayNameOf(model_name) ==
  CASE ProviderOf(model_name) = openai -> "OpenAI"
    [] ProviderOf(model_name) = deepseek -> "DeepSeek"
    [] ProviderOf(model_name) = anthropic -> "Anthropic"
    [] OTHER -> ""

\* the call of fnArgs reached the handler, which extracted a string
ExtractedString ==
  /\ DisplayNameOf(fnArgs[1]) # ""
  /\ ~fnArgs[2].raised
  /\ ~ResponseHandler(GetModelConfig(fnArgs[1]), fnArgs[2].val).raised
  /\ ResponseHandler(GetModelConfig(fnArgs[1]), fnArgs[2].val).val.t = "str"

ExtractedValue == ResponseHandler(GetModelConfig(fnArgs[1]), fnArgs[2].val).val.v

\* C6: prompt_gpt never returns an empty or whitespace-only string.  For
\* every provider, when the extracted text is empty after trimming it does
\* not raise and returns a placeholder that names the provider's display
\* name; otherwise it returns the extracted text without its surrounding
\* whitespace.
C6_NeverEmpty ==
  fnResult.done =>
    /\ ~fnResult.raised =>
         /\ fnResult.val.t = "str"
         /\ fnResult.val.v # <<>>
         /\ fnResult.val.v[1] \notin Whitespace
         /\ fnResult.val.v[Len(fnResult.val.v)] \notin Whitespace
    /\ ExtractedString =>
         /\ ~fnResult.raised
         /\ IF \A i \in DOMAIN ExtractedValue : ExtractedValue[i] \in Whitespace
            THEN /\ \E i \in DOMAIN fnResult.val.v :
                      fnResult.val.v[i] = DisplayNameOf(fnArgs[1])
                 /\ Len(fnResult.val.v) > 1
            ELSE \E a, b \in DOMAIN ExtractedValue :
                   /\ \A i \in 1..(a - 1) : ExtractedValue[i] \in Whitespace
                   /\ \A i \in (b + 1)..Len(ExtractedValue) : ExtractedValue[i] \in Whitespace
                   /\ fnResult.val.v = SubSeq(ExtractedValue, a, b)

\* C6 witness: the alias Claude, a reply whose content is only blanks: the
\* placeholder naming Anthropic is returned
C6_Witness ==
  /\ fnResult.done
  /\ ~fnResult.raised
  /\ fnArgs = <<<<"C", "l", "a", "u", "d", "e">>, Ret(Message(S(<<" ", " ">>)))>>
  /\ fnResult.val.v =
       <<"The system encountered an issue with the ", "Anthropic",
         " response. Please try again or use another model.">>

\* ------------------------------------------------------------------------
\* Properties of MOA mode
\* ------------------------------------------------------------------------

\* the current call is an MOA call on a requirement that exists
MoaCall == args.model = moa /\ args.requirement_id \in DOMAIN Requirements /\ pc # "idle"

FanoutCalls == SelectSeq(calls, LAMBDA c : c.purpose = "fanout")
SynthesisCalls == SelectSeq(calls, LAMBDA c : c.purpose = "synthesis")

\* all three fan-out calls have ended
FanoutOver ==
  Len(FanoutCalls) = 3 /\ \A i \in 1..3 : FanoutCalls[i].status # "pending"

\* C1: in MOA mode each of openai, deepseek, anthropic is invoked exactly
\* once whatever the others did: the fan-out invocations made so far are a
\* prefix of openai, deepseek, anthropic (none twice), all three have been
\* made once the fan-out is over, and an invocation that raised left None
\* for its own provider while every other provider keeps its own result.
C1_EachProviderOnce ==
  MoaCall =>
    /\ Len(FanoutCalls) <= 3
    /\ \A i \in DOMAIN FanoutCalls :
         FanoutCalls[i].name = <<openai, deepseek, anthropic>>[i]
    /\ pc \in {"synthesis", "returned", "raised"} => FanoutOver
    /\ \A i \in DOMAIN FanoutCalls :
         /\ FanoutCalls[i].status = "raised" => model_responses[FanoutCalls[i].name] = None
         /\ FanoutCalls[i].status = "ok" =>
              /\ model_responses[FanoutCalls[i].name].t = "str"
              /\ model_responses[FanoutCalls[i].name].v # <<>>

\* C1 witness: openai and anthropic raised, deepseek in between answered
C1_Witness ==
  /\ MoaCall
  /\ FanoutOver
  /\ FanoutCalls[1].status = "raised"
  /\ FanoutCalls[2].status = "ok"
  /\ FanoutCalls[3].status = "raised"
  /\ model_responses[deepseek] = S(<<"b">>)

AllFanoutFailed ==
  MoaCall /\ FanoutOver /\ \A i \in 1..3 : FanoutCalls[i].status = "raised"

\* C2: in MOA mode, when all three fan-out invocations failed, the workflow
\* raises, makes no synthesis invocation and leaves the stored row as it was.
C2_AllFailedRaises ==
  [][AllFanoutFailed' =>
       /\ pc' = "raised"
       /\ SynthesisCalls' = <<>>
       /\ row' = row
       /\ writes' = 0]_vars

\* C2 witness: a second MOA call whose three fan-out invocations all raised,
\* on a row an earlier call had written
C2_Witness ==
  AllFanoutFailed /\ pc = "raised" /\ row # EmptyRow

SynthesisFailed ==
  MoaCall /\ Len(SynthesisCalls) = 1 /\ SynthesisCalls[1].status = "raised"

\* the result of the first provider, in the order openai, deepseek,
\* anthropic, whose fan-out invocation produced one
FirstResult ==
  LET order == <<openai, deepseek, anthropic>>
      i == CHOOSE k \in 1..3 :
             /\ FanoutCalls[k].status = "ok"
             /\ \A j \in 1..(k - 1) : FanoutCalls[j].status # "ok"
  IN model_responses[order[i]]

\* C3: in MOA mode, when the synthesis invocation failed (at least one
\* fan-out invocation having succeeded), the workflow returns, and
\* final_response is the unchanged result of the first provider in the order
\* openai, deepseek, anthropic that produced one; it is a non-empty string.
C3_FallbackFirstResult ==
  SynthesisFailed =>
    /\ pc = "returned"
    /\ \E k \in 1..3 : FanoutCalls[k].status = "ok"
    /\ final_response = FirstResult
    /\ row.final_response = FirstResult
    /\ final_response.t = "str"
    /\ final_response.v # <<>>

\* C3 witness: openai failed, deepseek and anthropic answered, synthesis
\* failed: the fallback is deepseek's text
C3_Witness ==
  /\ SynthesisFailed
  /\ FanoutCalls[1].status = "raised"
  /\ FanoutCalls[2].status = "ok"
  /\ FanoutCalls[3].status = "ok"
  /\ final_response = S(<<"b">>)

\* the text between two marker tokens of a message content
Between(content, from, to) ==
  LET a == CHOOSE i \in DOMAIN content : content[i] = from
      b == CHOOSE i \in DOMAIN content : content[i] = to
  IN SubSeq(content, a + 1, b - 1)

\* the source responses part of the synthesis request in flight
SynthesisSources ==
  Between(inflight.request.messages[2].content,
          "\n\nSOURCE RESPONSES TO SYNTHESIZE:\n",
          "\n\nSYNTHESIS PROCESS: ... Now, provide the synthesized response that best addresses the requirement.")

SourceLabels == {"OpenAI Response:\n", "Deepseek Response:\n", "Claude Response:\n"}

\* the results of the fan-out invocations that succeeded, in the order
\* openai, deepseek, anthropic
SucceededResults ==
  LET order == <<openai, deepseek, anthropic>>
      ok == SelectSeq(<<1, 2, 3>>, LAMBDA k : FanoutCalls[k].status = "ok")
  IN [j \in DOMAIN ok |-> model_responses[order[ok[j]]].v]

\* C4: in MOA mode, once the fan-out is over with at least one success (also
\* exactly one), the synthesis invocation is made, and the source responses
\* in its prompt are the results of the providers that succeeded, in the
\* order openai, deepseek, anthropic, each under its own label and nothing
\* for a provider that failed.
C4_SynthesisFromSucceeded ==
  (MoaCall /\ FanoutOver /\ \E k \in 1..3 : FanoutCalls[k].status = "ok") =>
    /\ Len(SynthesisCalls) = 1
    /\ pc = "synthesis" =>
         /\ SelectSeq(SynthesisSources, LAMBDA tok : tok \notin SourceLabels \cup {"\n\n"})
              = Flatten(SucceededResults)
         /\ SelectSeq(SynthesisSources, LAMBDA tok : tok \in SourceLabels)
              = SelectSeq(<<"OpenAI Response:\n", "Deepseek Response:\n",
                            "Claude Response:\n">>,
                          LAMBDA lab :
                            \/ lab = "OpenAI Response:\n" /\ FanoutCalls[1].status = "ok"
                            \/ lab = "Deepseek Response:\n" /\ FanoutCalls[2].status = "ok"
                            \/ lab = "Claude Response:\n" /\ FanoutCalls[3].status = "ok")
         /\ Len(SelectSeq(SynthesisSources, LAMBDA tok : tok = "\n\n"))
              = Len(SucceededResults) - 1

\* C4 witness: only anthropic succeeded, and the synthesis request in flight
\* carries that one response
C4_Witness ==
  /\ MoaCall
  /\ pc = "synthesis"
  /\ FanoutCalls[1].status = "raised"
  /\ FanoutCalls[2].status = "raised"
  /\ FanoutCalls[3].status = "ok"
  /\ SynthesisSources = <<"Claude Response:\n", "c">>

\* a fan-out call is in flight and will never answer
HungFanout(name) ==
  MoaCall /\ pc = "fanout" /\ inflight.status = "hung" /\ inflight.request.name = name

\* the fan-out invocation of this provider was made and has ended
FanoutEnded(name) ==
  \E i \in DOMAIN FanoutCalls :
    FanoutCalls[i].name = name /\ FanoutCalls[i].status \in {"ok", "raised"}

\* the fan-out invocation of this provider was made
FanoutIssued(name) == \E i \in DOMAIN FanoutCalls : FanoutCalls[i].name = name

LoopPosition(name) == CHOOSE k \in 1..3 : <<openai, deepseek, anthropic>>[k] = name

SingleCall ==
  args.model # moa /\ args.requirement_id \in DOMAIN Requirements /\ pc # "idle"

\* the registry knows the name
KnownModel(model) == Lower(model) \in {openai, deepseek, anthropic, claude}

\* the model name is not known, or the provider call has failed
SingleFailed ==
  /\ SingleCall
  /\ \/ ~KnownModel(args.model)
     \/ /\ calls # <<>>
        /\ calls[1].transport = "raised" \/ calls[1].status = "raised"

\* C7: in single-provider mode (any model value but the exact string moa) a
\* failed provider call or a model name the registry does not know is fatal:
\* the failure is not swallowed, the workflow raises, and the stored row is
\* left as it was.
C7_SingleFailureFatal ==
  [][SingleFailed' => (pc' = "raised" /\ row' = row /\ writes' = 0)]_vars

\* C7 witness: a call for DeepSeek whose transport call raised, on a row an
\* earlier call had written
C7_Witness ==
  /\ SingleFailed
  /\ pc = "raised"
  /\ args.model = <<"D", "e", "e", "p", "S", "e", "e", "k">>
  /\ calls[1].transport = "raised"
  /\ row # EmptyRow

\* the provider columns of a row
Column(r, name) ==
  CASE name = openai -> r.openai_response
    [] name = deepseek -> r.deepseek_response
    [] name = anthropic -> r.anthropic_response

\* C8: a successful single-provider call for provider P (under any casing,
\* claude standing for anthropic) writes the returned text to P's column and
\* to final_response and leaves the other two provider columns as they were;
\* hence, while only single-provider calls have written, final_response is
\* the text of the last of them and each provider column holds the text of
\* that provider's most recent call.
C8_SingleWritesOwnColumn ==
  [][/\ (pc = "single" /\ pc' = "returned") =>
          /\ final_response'.t = "str"
          /\ row'.final_response = final_response'
          /\ \A name \in {openai, deepseek, anthropic} :
               Column(row', name) =
                 IF name = ProviderOf(args.model) THEN final_response'
                 ELSE Column(row, name)
     /\ history'.singlesOnly =>
          /\ row'.final_response = history'.last
          /\ \A name \in {openai, deepseek, anthropic} :
               Column(row', name) = history'.recent[name]]_vars

\* C8 witness: a call for openAI, then a call for Claude: the row holds
\* both texts and final_response is the second
C8_Witness ==
  /\ pc = "returned"
  /\ ncalls = 2
  /\ history.singlesOnly
  /\ args.model = <<"C", "l", "a", "u", "d", "e">>
  /\ row.openai_response = S(<<"a">>)
  /\ row.deepseek_response = None
  /\ row.anthropic_response = S(<<"c">>)
  /\ row.final_response = S(<<"c">>)

\* C9: an MOA call that completes writes, for each of the three providers,
\* that provider's fan-out result to its column, or null when that provider
\* failed, whatever the column held, together with a non-null final_response.
C9_MoaWritesAllColumns ==
  [][(pc = "synthesis" /\ pc' = "returned") =>
       /\ \A i \in 1..3 :
            LET name == <<openai, deepseek, anthropic>>[i]
            IN /\ FanoutCalls[i].status = "ok" =>
                    /\ Column(row', name) = model_responses[name]
                    /\ Column(row', name).t = "str"
               /\ FanoutCalls[i].status = "raised" => Column(row', name) = None
       /\ row'.final_response # None
       /\ row'.final_response.t = "str"
       /\ row'.final_response.v # <<>>]_vars

\* C9 witness: a second call, in MOA mode, in which deepseek failed: its
\* column is null, the others hold their results
C9_Witness ==
  /\ MoaCall
  /\ pc = "returned"
  /\ ncalls = 2
  /\ FanoutCalls[2].status = "raised"
  /\ row.openai_response = S(<<"a">>)
  /\ row.deepseek_response = None
  /\ row.anthropic_response = S(<<"c">>)
  /\ row.final_response = S(<<"s">>)

\* C10: a workflow call makes at most one persistence write; it has made
\* exactly one when it has returned and none when it has raised; and the
\* write comes after every provider invocation of the call has returned or
\* failed.
C10_OneWriteAtTheEnd ==
  [][/\ writes' \in {0, 1}
     /\ pc' = "returned" => writes' = 1
     /\ pc' # "returned" => writes' = 0
     /\ row' # row => (writes = 0 /\ writes' = 1 /\ pc # "returned" /\ pc' = "returned")
     /\ writes' = 1 =>
          /\ inflight'.status = "none"
          /\ \A i \in DOMAIN calls' : calls'[i].status \in {"ok", "raised"}]_vars

\* C10 witness: an MOA call that has returned after its four provider
\* invocations, with its one write
C10_Witness ==
  /\ MoaCall
  /\ pc = "returned"
  /\ writes = 1
  /\ Len(calls) = 4
  /\ \A i \in 1..4 : calls[i].status \in {"ok", "raised"}
  /\ row.final_response = final_response

\* ------------------------------------------------------------------------
\* Properties of the similar matches and of the cached snapshot
\* ------------------------------------------------------------------------

\* text occurs in content as a run of consecutive tokens
Occurs(text, content) ==
  \E k \in 0..(Len(content) - Len(text)) :
    \A i \in DOMAIN text : content[k + i] = text[i]

\* the request's messages carry the texts of the first three of the matches
PromptCarries(request, texts) ==
  \A i \in DOMAIN texts :
    i <= 3 =>
      \E m \in DOMAIN request.messages :
        /\ Occurs(texts[i][1], request.messages[m].content)
        /\ Occurs(texts[i][2], request.messages[m].content)

\* the step is the start of a call with skip_similarity_search set, for the
\* stored requirement
SkipStart ==
  /\ ncalls' = ncalls + 1
  /\ \E in \in StartInputs :
       /\ in[1] \in DOMAIN Requirements
       /\ in[2] = args'.model
       /\ in[3]
       /\ Start(in[1], in[2], in[3], in[4])

\* C11: in both modes a call that succeeds persists the similar-matches list
\* it used; a later call on the requirement with skip_similarity_search set
\* issues no similarity query and builds its prompt from the same matched
\* requirement texts and response texts, in the same order, as the call that
\* wrote the snapshot.
C11_SnapshotRoundTrip ==
  [][/\ (writes = 0 /\ writes' = 1) =>
          /\ row'.similar_questions = Snapshot(similar_questions_list)
          /\ ~LiteralEval(Snapshot(similar_questions_list)).raised
          /\ MatchTexts(PreviousResponses(
               SimilarFromCache(LiteralEval(Snapshot(similar_questions_list)).val.v)))
               = MatchTexts(previous_responses)
     /\ (row.similar_questions # None /\ SkipStart) =>
          /\ ~searched'
          /\ MatchTexts(previous_responses') = history.used
          /\ inflight'.status = "pending" =>
               PromptCarries(inflight'.request, history.used)]_vars

\* C11 witness: a second call, with skip_similarity_search, has issued its
\* first provider call without a similarity query, from the two matches the
\* first call stored (texts with quotes, a backslash and a line break)
C11_Witness ==
  /\ ncalls = 2
  /\ ~searched
  /\ inflight.status = "pending"
  /\ Len(previous_responses) = 2
  /\ previous_responses[1].requirement = <<"Q", "'", "1">>
  /\ previous_responses[1].response = <<"A", "\"", "'", "\\", "\n", "1">>
  /\ previous_responses[2].response = <<"A2">>
  /\ MatchTexts(previous_responses) = history.used
  /\ PromptCarries(inflight.request, history.used)

\* the step is the start of a call, for the stored requirement, whose
\* similarity query was issued and failed
FailedSearchStart ==
  /\ ncalls' = ncalls + 1
  /\ searched'
  /\ \E in \in StartInputs :
       /\ in[1] \in DOMAIN Requirements
       /\ in[2] = args'.model
       /\ in[4] = Raise
       /\ Start(in[1], in[2], in[3], in[4])

\* some message of the request carries the no-prior-examples notice
CarriesNotice(request) ==
  \E m \in DOMAIN request.messages :
    Occurs(<<NoExamplesNotice>>, request.messages[m].content)

\* the current call searched and has no similar matches
NoMatchesCall ==
  /\ args.requirement_id \in DOMAIN Requirements
  /\ pc # "idle"
  /\ searched
  /\ previous_responses = <<>>

\* C12: a failure of the similarity search is not fatal: the workflow goes
\* on with an empty list of matches, issues its provider call with a prompt
\* that carries the no-prior-examples notice, raises only when the provider
\* calls fail (or the model name is unknown), and on return has persisted the
\* result with the empty list.
C12_SearchFailureNotFatal ==
  [][/\ FailedSearchStart =>
          /\ previous_responses' = <<>>
          /\ similar_questions_list' = <<>>
          /\ (args'.model = moa \/ KnownModel(args'.model)) =>
               /\ pc' \in {"fanout", "single"}
               /\ inflight'.status = "pending"
               /\ CarriesNotice(inflight'.request)
     /\ (NoMatchesCall' /\ pc' = "raised") => (SingleFailed' \/ AllFanoutFailed')
     /\ (NoMatchesCall' /\ pc' = "returned" /\ pc # "returned") =>
          /\ writes' = 1
          /\ row'.final_response = final_response'
          /\ row'.similar_questions = S(<<"[", "]">>)]_vars

\* C12 witness: a call whose similarity query failed has returned and has
\* stored its result with the empty list
C12_Witness ==
  /\ NoMatchesCall
  /\ pc = "returned"
  /\ writes = 1
  /\ row.final_response = final_response
  /\ final_response # None
  /\ row.similar_questions = S(<<"[", "]">>)

\* the current call is for an id that is not stored
UnknownRequirementCall == pc # "idle" /\ args.requirement_id \notin DOMAIN Requirements

\* C13: when the requirement id does not exist the workflow fails at its
\* start: it raises before any similarity lookup, before any provider
\* invocation, and without a persistence write.
C13_UnknownRequirementFatal ==
  [][UnknownRequirementCall' =>
       /\ pc' = "raised"
       /\ ~searched'
       /\ previous_responses' = <<>>
       /\ calls' = <<>>
       /\ inflight'.status = "none"
       /\ writes' = 0
       /\ row' = row]_vars

\* C13 witness: a call in single-provider mode, with skip_similarity_search,
\* for id 2 after a call that stored a snapshot for id 1
C13_Witness ==
  /\ UnknownRequirementCall
  /\ args.model = openai
  /\ ncalls = 2
  /\ row.similar_questions # None
  /\ pc = "raised"
  /\ calls = <<>>
  /\ writes = 0

\* ------------------------------------------------------------------------
\* The provider registry on its own
\* ------------------------------------------------------------------------

\* the upper-case form of a lower-case letter
UpperChar(c) ==
  IF \E i \in DOMAIN LowerLetters : LowerLetters[i] = c
  THEN UpperLetters[CHOOSE i \in DOMAIN LowerLetters : LowerLetters[i] = c]
  ELSE c

RECURSIVE Casings(_)
\* every way of writing a lower-case name in upper- and lower-case letters
Casings(base) ==
  IF base = <<>> THEN {<<>>}
  ELSE { <<c>> \o rest : c \in {Head(base), UpperChar(Head(base))},
                         rest \in Casings(Tail(base)) }

\* names that are no casing of a supported name or of the alias
OtherNames ==
  { moa, <<"M", "O", "A">>, <<>>, <<"g", "p", "t", "4">>, <<"g", "p", "t", "-", "4">>,
    <<" ">> \o openai, openai \o <<" ">>, <<"o", "p", "e", "n", "-", "a", "i">>,
    <<"c", "l", "a", "u", "d">>, claude \o <<"3">>, anthropic \o <<"s">>,
    <<"d", "e", "e", "p", "s", "e", "e", "k", "-", "c", "h", "a", "t">> }

RegistryNames ==
  Casings(openai) \cup Casings(deepseek) \cup Casings(anthropic) \cup Casings(claude)
    \cup OtherNames

RegistryInit ==
  /\ WorkflowInit
  /\ fnArgs \in { <<model_name>> : model_name \in RegistryNames }
  /\ fnResult = NoFn

\* one call of get_model_config
Resolve ==
  /\ ~fnResult.done
  /\ fnResult' = [done |-> TRUE,
                  raised |-> GetModelConfig(fnArgs[1]).raised,
                  val |-> GetModelConfig(fnArgs[1])]
  /\ UNCHANGED <<wvars, fnArgs>>

RegistryNext == Resolve

RegistrySpec == RegistryInit /\ [][RegistryNext]_vars

\* the configuration of a supported name
ConfigOf(base) ==
  [raised |-> FALSE,
   normalized_name |-> base,
   display_name |-> CASE base = openai -> "OpenAI"
                      [] base = deepseek -> "DeepSeek"
                      [] base = anthropic -> "Anthropic",
   requires_system_message_handling |-> (base = anthropic),
   response_handler |-> IF base = anthropic THEN "extract_text"
                        ELSE "choices_content_strip"]

\* C14: get_model_config is case-insensitive and alias-aware: every casing
\* of openai, deepseek or anthropic resolves to that name's configuration,
\* every casing of claude resolves to the anthropic configuration, and every
\* other name fails with the unsupported-model error.
C14_ResolutionCaseInsensitive ==
  fnResult.done =>
    /\ \A base \in {openai, deepseek, anthropic} :
         fnArgs[1] \in Casings(base) =>
           (~fnResult.raised /\ fnResult.val = ConfigOf(base))
    /\ fnArgs[1] \in Casings(claude) =>
         (~fnResult.raised /\ fnResult.val = ConfigOf(anthropic))
    /\ fnArgs[1] \notin
         (Casings(openai) \cup Casings(deepseek) \cup Casings(anthropic)
            \cup Casings(claude)) => fnResult.raised

\* C14 witness: the alias in mixed case has been resolved to anthropic
C14_Witness ==
  /\ fnResult.done
  /\ fnArgs = << <<"c", "L", "a", "U", "d", "E">> >>
  /\ ~fnResult.raised
  /\ fnResult.val.normalized_name = anthropic
  /\ fnResult.val.display_name = "Anthropic"

\* ------------------------------------------------------------------------
\* The response extractor on its own
\* ------------------------------------------------------------------------

\* values a text or content field may hold
FieldValues ==
  { S(<<"a">>), S(<<" ", "b", "\n">>), S(<<>>), None, Num(7), L(<<S(<<"t">>)>>) }

\* reply objects: the shapes of ResponseShapes, content lists of two blocks,
\* of two plain strings and of a dict, direct text fields, nested messages
\* and choices
ExtractorShapes ==
  ResponseShapes
    \cup { Message(L(<<TextBlock(x), TextBlock(y)>>)) : x, y \in FieldValues }
    \cup { Message(L(<<S(x), S(y)>>)) : x, y \in {<<"a">>, <<"b", " ">>, <<>>} }
    \cup { Message(L(<<D(<< <<"text", x>> >>)>>)) : x \in FieldValues }
    \cup { Message(x) : x \in FieldValues }
    \cup { O(<< <<"text", x>> >>) : x \in FieldValues }
    \cup { O(<< <<"message", Message(L(<<TextBlock(x)>>))>> >>) : x \in FieldValues }
    \cup { ChatCompletion(x) : x \in FieldValues }

ExtractorInit ==
  /\ WorkflowInit
  /\ fnArgs \in { <<response>> : response \in ExtractorShapes }
  /\ fnResult = NoFn

\* one call of extract_text
Extract ==
  /\ ~fnResult.done
  /\ fnResult' = [done |-> TRUE,
                  raised |-> ExtractText(fnArgs[1]).raised,
                  val |-> ExtractText(fnArgs[1]).val]
  /\ UNCHANGED <<wvars, fnArgs>>

ExtractorNext == Extract

ExtractorSpec == ExtractorInit /\ [][ExtractorNext]_vars

\* C15: extract_text never raises and always returns a string, for every
\* response shape.
C15_NeverRaisesReturnsString ==
  fnResult.done => (~fnResult.raised /\ fnResult.val.t = "str")

\* C15 witness: a choices-style reply whose message content is null is
\* answered with a string
C15_Witness ==
  /\ fnResult.done
  /\ fnArgs = <<ChatCompletion(None)>>
  /\ ~fnResult.raised
  /\ fnResult.val.t = "str"

\* the response has a content field that is a list of plain strings
ContentOfStrings(response) ==
  /\ HasAttr(response, "content")
  /\ GetAttr(response, "content").t = "list"
  /\ GetAttr(response, "content").v # <<>>
  /\ \A i \in DOMAIN GetAttr(response, "content").v :
       GetAttr(response, "content").v[i].t = "str"

\* the strings of such a content field
ContentStrings(response) ==
  [i \in DOMAIN GetAttr(response, "content").v |-> GetAttr(response, "content").v[i].v]

\* C16: when the content field is a sequence of plain text strings,
\* extract_text returns those strings joined together, not a stringification
\* of the list.
C16_JoinsPlainStrings ==
  (fnResult.done /\ ContentOfStrings(fnArgs[1])) =>
    /\ ~fnResult.raised
    /\ \E sep \in {<<>>, <<" ">>, <<"\n">>} :
         fnResult.val = S(Join(sep, ContentStrings(fnArgs[1])))

\* C16 witness: the content ['a', 'b '] has been extracted
C16_Witness ==
  /\ fnResult.done
  /\ fnArgs = <<Message(L(<<S(<<"a">>), S(<<"b", " ">>)>>))>>
  /\ fnResult.val = S(<<"[", "'", "a", "'", ",", " ", "'", "b", " ", "'", "]">>)

\* ------------------------------------------------------------------------
\* The prompt builder on its own
\* ------------------------------------------------------------------------

\* Longest list of similar matches handed to create_rfp_prompt.
MaxMatches == 4

\* matches a list is made of: previous_responses entries
MatchPool ==
  { [requirement |-> <<"Q", "'", "1">>, response |-> <<"A", "\n", "1">>,
     similarity_score |-> 91234],
    [requirement |-> <<"Q2">>, response |-> <<"A2">>, similarity_score |-> 13496],
    [requirement |-> <<>>, response |-> <<>>, similarity_score |-> 0] }

\* the lists of at most MaxMatches matches, and the absent list
MatchLists ==
  { L(ms) : ms \in UNION { [1..n -> MatchPool] : n \in 0..MaxMatches } } \cup {None}

BuilderInit ==
  /\ WorkflowInit
  /\ fnArgs \in { <<previous>> : previous \in MatchLists }
  /\ fnResult = NoFn

\* one call of create_rfp_prompt for the stored requirement
BuildPrompt ==
  /\ ~fnResult.done
  /\ fnResult' = [done |-> TRUE,
                  raised |-> FALSE,
                  val |-> CreateRfpPromptOptional(Requirements[1].requirement,
                                                  Requirements[1].category, fnArgs[1])]
  /\ UNCHANGED <<wvars, fnArgs>>

BuilderNext == BuildPrompt

BuilderSpec == BuilderInit /\ [][BuilderNext]_vars

\* the content of the first user message of a prompt
FirstUserContent(prompt) ==
  prompt[CHOOSE i \in DOMAIN prompt :
           /\ prompt[i].role = "user"
           /\ \A j \in 1..(i - 1) : prompt[j].role # "user"].content

\* where the examples start in a content
ExampleStarts(content) == { k \in DOMAIN content : content[k] = "**Example " }

\* the matches given to the call of fnArgs
GivenMatches == IF fnArgs[1].t = "list" THEN fnArgs[1].v ELSE <<>>

\* the k-th example of the content is match m with its texts verbatim: the
\* heading with the number k, a score of four characters, then the
\* requirement text and the response text on their lines
IsExampleOf(content, start, k, m) ==
  LET body == <<")**:\n", "Requirement: ">> \o m.requirement
                \o <<"\n", "Response: ">> \o m.response \o <<"\n", "\n">>
  IN /\ start + 6 + Len(body) <= Len(content)
     /\ content[start + 1] = ToString(k)
     /\ content[start + 2] = " (Similarity: "
     /\ SubSeq(content, start + 7, start + 6 + Len(body)) = body
     /\ \A j \in (start + 1)..(start + 6 + Len(body)) : content[j] # "**Example "

\* C17: for every list of n similar matches the first user message embeds
\* exactly the first min(n, 3) matches, in their order, each with its
\* requirement text and response text verbatim, and none beyond the third;
\* with n = 0, or no list, it embeds the no-prior-examples notice instead.
C17_FirstThreeMatchesEmbedded ==
  fnResult.done =>
    LET content == FirstUserContent(fnResult.val)
        n == Len(GivenMatches)
        used == IF n < 3 THEN n ELSE 3
        starts == ExampleStarts(content)
    IN /\ Cardinality(starts) = used
       /\ \A k \in 1..used :
            \E start \in starts :
              /\ Cardinality({ x \in starts : x < start }) = k - 1
              /\ IsExampleOf(content, start, k, GivenMatches[k])
       /\ (n = 0) <=> Occurs(<<NoExamplesNotice>>, content)

\* C17 witness: four matches were given; the message has three examples and
\* no notice
C17_Witness ==
  /\ fnResult.done
  /\ Len(GivenMatches) = 4
  /\ GivenMatches[1].requirement = <<"Q", "'", "1">>
  /\ GivenMatches[2].requirement = <<"Q2">>
  /\ GivenMatches[3].requirement = <<>>
  /\ GivenMatches[4].requirement = <<"Q2">>
  /\ Cardinality(ExampleStarts(FirstUserContent(fnResult.val))) = 3
  /\ ~Occurs(<<NoExamplesNotice>>, FirstUserContent(fnResult.val))

\* ------------------------------------------------------------------------
\* Format conversion on its own
\* ------------------------------------------------------------------------

\* Longest prompt handed to convert_prompt_to_claude.
MaxMessages == 3

\* messages a prompt is made of
MessagePool ==
  { Msg(role, content) : role \in {"system", "user", "assistant"},
                         content \in {<<"x">>, <<"y", "\n">>} }

Prompts == UNION { [1..n -> MessagePool] : n \in 0..MaxMessages }

ConverterInit ==
  /\ WorkflowInit
  /\ fnArgs \in { <<prompt>> : prompt \in Prompts }
  /\ fnResult = NoFn

\* convert_prompt_to_claude(prompt)
Convert ==
  /\ ~fnResult.done
  /\ fnResult' = [done |-> TRUE, raised |-> FALSE, val |-> ConvertPromptToClaude(fnArgs[1])]
  /\ UNCHANGED <<wvars, fnArgs>>

\* convert_prompt_to_claude applied to what the first call returned
ConvertAgain ==
  /\ fnResult.done
  /\ Len(fnArgs) = 1
  /\ fnArgs' = <<fnArgs[1], fnResult.val>>
  /\ fnResult' = [done |-> TRUE, raised |-> FALSE, val |-> ConvertPromptToClaude(fnResult.val)]
  /\ UNCHANGED wvars

ConverterNext == Convert \/ ConvertAgain

ConverterSpec == ConverterInit /\ [][ConverterNext]_vars

HasRole(prompt, role) == \E i \in DOMAIN prompt : prompt[i].role = role

\* the messages of a prompt that are not system messages
NonSystem(prompt) == SelectSeq(prompt, LAMBDA msg : msg.role # "system")

\* the index of the first user message of a sequence that has one
FirstUser(messages) ==
  CHOOSE i \in DOMAIN messages :
    /\ messages[i].role = "user"
    /\ \A j \in 1..(i - 1) : messages[j].role # "user"

\* C18: for every prompt with a system message and at least one user
\* message, whatever the order of its user and assistant messages, the
\* conversion returns a sequence without system entries in which the first
\* user message has as content the system text, the separator and
\* 'Human: ', then its own content, and every other message keeps its role,
\* content and relative order.
C18_SystemTextOnFirstUser ==
  (fnResult.done /\ Len(fnArgs) = 1
     /\ HasRole(fnArgs[1], "system") /\ HasRole(fnArgs[1], "user")) =>
    LET kept == NonSystem(fnArgs[1])
        first == FirstUser(kept)
        system_text == fnArgs[1][CHOOSE i \in DOMAIN fnArgs[1] :
                                   /\ fnArgs[1][i].role = "system"
                                   /\ \A j \in 1..(i - 1) :
                                        fnArgs[1][j].role # "system"].content
    IN /\ ~HasRole(fnResult.val, "system")
       /\ Len(fnResult.val) = Len(kept)
       /\ \A i \in DOMAIN kept :
            /\ fnResult.val[i].role = kept[i].role
            /\ fnResult.val[i].content =
                 IF i = first
                 THEN system_text \o <<"\n\nHuman: ">> \o kept[i].content
                 ELSE kept[i].content

\* C18 witness: a system message, then an assistant message, then a user
\* message: the converted prompt holds the two messages as they were, and
\* the system text nowhere
C18_Witness ==
  /\ fnResult.done
  /\ fnArgs = << <<Msg("system", <<"x">>), Msg("assistant", <<"y", "\n">>),
                  Msg("user", <<"y", "\n">>)>> >>
  /\ fnResult.val = <<Msg("assistant", <<"y", "\n">>), Msg("user", <<"y", "\n">>)>>

\* C19: on a prompt p of user and assistant messages only, convert(p) = p
\* and convert(convert(p)) = convert(p).
C19_IdempotentWithoutSystem ==
  (fnResult.done /\ ~HasRole(fnArgs[1], "system")) =>
    /\ Len(fnArgs) = 1 => fnResult.val = fnArgs[1]
    /\ Len(fnArgs) = 2 => (fnArgs[2] = fnArgs[1] /\ fnResult.val = fnArgs[2])

\* C19 witness: a user, an assistant and a user message, converted twice
C19_Witness ==
  /\ fnResult.done
  /\ Len(fnArgs) = 2
  /\ fnArgs[1] = <<Msg("user", <<"x">>), Msg("assistant", <<"y", "\n">>),
                   Msg("user", <<"x">>)>>
  /\ fnResult.val = fnArgs[1]

\* ------------------------------------------------------------------------
\* The request of the provider invoker on its own
\* ------------------------------------------------------------------------

RequestInit ==
  /\ WorkflowInit
  /\ fnArgs \in { <<model_name, prompt>> :
                    model_name \in {openai, deepseek, anthropic,
                                    <<"C", "l", "a", "u", "d", "e">>},
                    prompt \in Prompts }
  /\ fnResult = NoFn

\* prompt_gpt up to the transport call: the request it issues
IssueRequest ==
  /\ ~fnResult.done
  /\ fnResult' = [done |-> TRUE, raised |-> FALSE,
                  val |-> Issue(fnArgs[1], fnArgs[2]).request]
  /\ UNCHANGED <<wvars, fnArgs>>

RequestNext == IssueRequest

RequestSpec == RequestInit /\ [][RequestNext]_vars

\* the provider of the name takes its system text out of band
OutOfBandSystem(model_name) ==
  model_name \in Casings(anthropic) \cup Casings(claude)

\* C20: for a provider that takes the system text out of band, the request
\* carries a message list without system entries, the other messages kept in
\* order, and a system field equal to the content of the first system message
\* of the prompt, or to the fixed confidentiality notice when the prompt has
\* no system message.
C20_SystemOutOfBand ==
  (fnResult.done /\ OutOfBandSystem(fnArgs[1])) =>
    /\ ~HasRole(fnResult.val.messages, "system")
    /\ fnResult.val.messages = NonSystem(fnArgs[2])
    /\ fnResult.val.system =
         IF HasRole(fnArgs[2], "system")
         THEN S(fnArgs[2][CHOOSE i \in DOMAIN fnArgs[2] :
                            /\ fnArgs[2][i].role = "system"
                            /\ \A j \in 1..(i - 1) : fnArgs[2][j].role # "system"].content)
         ELSE S(<<"All responses and data must be treated as private and confidential. Do not use for training or any other purpose.">>)

\* C20 witness: Claude is given two system messages around a user message;
\* the request holds the user message and the first system text
C20_Witness ==
  /\ fnResult.done
  /\ fnArgs = << <<"C", "l", "a", "u", "d", "e">>,
                 <<Msg("system", <<"x">>), Msg("user", <<"x">>),
                   Msg("system", <<"y", "\n">>)>> >>
  /\ fnResult.val.messages = <<Msg("user", <<"x">>)>>
  /\ fnResult.val.system = S(<<"x">>)

\* ------------------------------------------------------------------------
\* Properties of the synthesis invocation (MOA mode)
\* ------------------------------------------------------------------------

\* the invocations of the current call that are synthesis invocations
SynthesisPositions == { i \in DOMAIN calls : calls[i].purpose = "synthesis" }

\* C21: in MOA mode the synthesis invocation is issued only after the three
\* fan-out invocations (one per provider) have each returned or raised, it is
\* addressed to openai, and a workflow call issues it at most once.
C21_SynthesisAfterJoin ==
  /\ Cardinality(SynthesisPositions) <= 1
  /\ \A i \in SynthesisPositions :
       /\ args.model = moa
       /\ i = 4
       /\ \A j \in 1..3 : /\ calls[j].purpose = "fanout"
                          /\ calls[j].status \in {"ok", "raised"}
       /\ { calls[j].name : j \in 1..3 } = {openai, deepseek, anthropic}
       /\ calls[i].name = openai
       /\ calls[i].status = "pending" =>
            /\ pc = "synthesis"
            /\ inflight.status = "pending"
            /\ inflight.request.name = openai
            /\ IsSynthesisRequest(inflight.request)
  /\ (inflight.status = "pending" /\ IsSynthesisRequest(inflight.request)) =>
       SynthesisPositions # {}

\* the synthesis invocation is in flight after a fan-out in which one
\* provider returned and another raised
C21_Witness ==
  /\ pc = "synthesis"
  /\ Len(calls) = 4
  /\ calls[4].purpose = "synthesis"
  /\ calls[4].status = "pending"
  /\ \E j, k \in 1..3 : calls[j].status = "raised" /\ calls[k].status = "ok"

\* ------------------------------------------------------------------------
\* Properties of the provider invoker on replies without block text
\* ------------------------------------------------------------------------

\* the call of fnArgs went to the provider read with extract_text, and the
\* reply has a content field that is a list
ContentListReply ==
  /\ ProviderOf(fnArgs[1]) = anthropic
  /\ ~fnArgs[2].raised
  /\ HasAttr(fnArgs[2].val, "content")
  /\ GetAttr(fnArgs[2].val, "content").t = "list"

ReplyContent == GetAttr(fnArgs[2].val, "content")

\* an empty list, or blocks whose texts are all empty
NoBlockText(content) ==
  \A i \in DOMAIN content.v :
    HasAttr(content.v[i], "text") /\ GetAttr(content.v[i], "text") = S(<<>>)

\* prompt_gpt returned the stringification of the reply's content list
ReturnsStringification ==
  /\ ExtractText(fnArgs[2].val) = Ret(S(Str(ReplyContent)))
  /\ Str(ReplyContent) # <<>>
  /\ ~fnResult.raised
  /\ fnResult.val = S(Str(ReplyContent))
  /\ fnResult.val # S(EmptyResponsePlaceholder("Anthropic"))

\* C22 as stated: when the reply's content is an empty list or a list of
\* blocks whose texts are all empty, the extractor returns the non-empty
\* stringification of the list and prompt_gpt returns that string, not the
\* empty-response placeholder.
C22_NoTextListIsSuccess ==
  (fnResult.done /\ ContentListReply /\ NoBlockText(ReplyContent)) =>
    ReturnsStringification

\* C22 amended: the stringification is returned for an empty list and for a
\* single block with empty text.  Two or more blocks with empty texts join
\* to the separating spaces, which the extractor returns, and prompt_gpt
\* then returns the empty-response placeholder.
C22_NoTextListUpToOneBlock ==
  (fnResult.done /\ ContentListReply /\ NoBlockText(ReplyContent)) =>
    IF Len(ReplyContent.v) <= 1
    THEN ReturnsStringification
    ELSE /\ ExtractText(fnArgs[2].val) =
              Ret(S([i \in 1..(Len(ReplyContent.v) - 1) |-> " "]))
         /\ ~fnResult.raised
         /\ fnResult.val = S(EmptyResponsePlaceholder("Anthropic"))

\* prompt_gpt has returned for a reply whose one block has empty text
C22_Witness ==
  /\ fnResult.done
  /\ ContentListReply
  /\ ReplyContent = L(<<TextBlock(S(<<>>))>>)
  /\ fnResult.val = S(<<"[", "<object>", "]">>)

\* ------------------------------------------------------------------------
\* Properties of the empty-response placeholder in MOA mode
\* ------------------------------------------------------------------------

\* the empty-response placeholder prompt_gpt returns for a provider
PlaceholderOf(name) == S(EmptyResponsePlaceholder(model_configs[name].display_name))

\* the label of a provider's response in the synthesis prompt
LabelOf(name) ==
  CASE name = openai -> "OpenAI Response:\n"
    [] name = deepseek -> "Deepseek Response:\n"
    [] name = anthropic -> "Claude Response:\n"

\* the step is the end of a synthesis call that the provider answered with
\* empty text
EmptySynthesisReturn == SynthesisReturns(Ret(ChatCompletion(S(<<>>))))

\* a fan-out provider's result is the placeholder
FanoutPlaceholder(name) ==
  MoaCall /\ FanoutOver /\ model_responses[name] = PlaceholderOf(name)

\* C23: in MOA mode the empty-response placeholder counts as a result.  When
\* the synthesis call returns empty text, no fallback is taken: the call is a
\* success, and final_response, returned and stored, is the placeholder,
\* whatever the individual results are.  The fallback value is used only when
\* the synthesis invocation raised.  A fan-out provider's placeholder is
\* among the sources of the synthesis prompt under the provider's label and
\* is stored in that provider's column.
C23_PlaceholderIsAResult ==
  [][/\ (pc = "synthesis" /\ EmptySynthesisReturn) =>
          /\ pc' = "returned"
          /\ calls'[4].status = "ok"
          /\ final_response' = PlaceholderOf(openai)
          /\ row'.final_response = PlaceholderOf(openai)
     /\ (pc = "synthesis" /\ pc' = "returned" /\ calls'[4].status = "ok") =>
          \E outcome \in TransportOutcomes(inflight.request) :
            /\ ~outcome.raised
            /\ final_response' = S(Strip(GetAttr(GetAttr(GetAttr(outcome.val, "choices").v[1],
                                                         "message"), "content").v))
               \/ final_response' = PlaceholderOf(openai)
     /\ \A name \in {openai, deepseek, anthropic} :
          FanoutPlaceholder(name)' =>
            /\ pc' = "synthesis" =>
                 Occurs(<<LabelOf(name)>> \o PlaceholderOf(name).v, SynthesisSources')
            /\ pc' = "returned" => Column(row', name) = PlaceholderOf(name)]_vars

\* C23 witness: openai's fan-out call returned the placeholder and deepseek's
\* a text; the synthesis call returned empty text, and the placeholder is
\* stored as final_response and in openai's column next to deepseek's text
C23_Witness ==
  /\ MoaCall
  /\ pc = "returned"
  /\ calls[4].status = "ok"
  /\ model_responses[openai] = PlaceholderOf(openai)
  /\ model_responses[deepseek] = S(<<"b">>)
  /\ row.final_response = PlaceholderOf(openai)
  /\ row.openai_response = PlaceholderOf(openai)
  /\ row.deepseek_response = S(<<"b">>)

\* ------------------------------------------------------------------------
\* Properties of the prompt each provider is sent
\* ------------------------------------------------------------------------

\* the prompt the Prompt Builder gives for the current call
BuiltPrompt ==
  CreateRfpPrompt(Requirements[args.requirement_id].requirement,
                  Requirements[args.requirement_id].category, previous_responses)

\* a provider call made with a Prompt Builder prompt is under way
BuilderRequest ==
  /\ inflight.status # "none"
  /\ pc \in {"fanout", "single"}

\* C24: in both modes the request to anthropic is made from the converted
\* prompt, which has no system entry: its out-of-band system field is the
\* fixed confidentiality notice, and the Prompt Builder's system text is at
\* the head of its first user message, before the user text; the requests to
\* openai and deepseek carry the prompt as built, its system message first,
\* and no out-of-band system field.
C24_AnthropicGetsConvertedPrompt ==
  BuilderRequest =>
    IF inflight.request.name = anthropic
    THEN /\ inflight.request.system = S(<<ConfidentialityNotice>>)
         /\ \A i \in DOMAIN inflight.request.messages :
              inflight.request.messages[i].role # "system"
         /\ inflight.request.messages[1].role = "user"
         /\ inflight.request.messages[1].content =
              BuiltPrompt[1].content \o <<"\n\nHuman: ">> \o BuiltPrompt[2].content
         /\ inflight.request.messages = <<inflight.request.messages[1], BuiltPrompt[3]>>
    ELSE /\ inflight.request.name \in {openai, deepseek}
         /\ inflight.request.system = None
         /\ inflight.request.messages = BuiltPrompt
         /\ BuiltPrompt[1].role = "system"

\* C24 witness: a single-provider call under the alias Claude, with matches
\* in the prompt, has its request to anthropic in flight
C24_Witness ==
  /\ pc = "single"
  /\ args.model = <<"C", "l", "a", "u", "d", "e">>
  /\ previous_responses # <<>>
  /\ inflight.status = "pending"
  /\ inflight.request.name = anthropic
  /\ inflight.request.system = S(<<ConfidentialityNotice>>)
  /\ Occurs(<<"\n\nHuman: ">>, inflight.request.messages[1].content)

====
